---- MODULE Spec2Model ----
(***************************************************************************)
(* Model of server/containers/aptrepo/makeindex.py: the two regular        *)
(* expressions (slot_regexp, version_regexp), parse_version, and the index *)
(* building loop of main.                                                  *)
(*                                                                         *)
(* Python strings are modelled as sequences of one-character strings, so   *)
(* that matching, splitting, int() and formatting are computed character   *)
(* by character.  A regular expression is modelled by the list of its      *)
(* complete parses in the order in which the backtracking matcher of re    *)
(* tries them; re.match returns the first one.                             *)
(***************************************************************************)
EXTENDS Integers, Sequences, FiniteSets, TLC

VARIABLES
    ver,        \* parse_version: the argument
    parsed,     \* parse_version: what the call gave (NotCalled before it)
    pkg,        \* slot_regexp: the package name matched
    split,      \* slot_regexp: (basename, slot) of the match (NotCalled before)
    dists,      \* main: the set of distributions still to be iterated
    listing,    \* main: per started distribution, the lines reprepro list gave
    cur,        \* main: the distribution of the running outer iteration
    pos,        \* main: number of lines of listing[cur] consumed by the inner loop
    index,      \* main: the local list index of the running outer iteration
    files,      \* main: the files written so far, distribution -> packages
    stdout,     \* main: the diagnostics printed so far
    pc          \* main: "loop" | "rows" | "done" | "failed"

vars == <<ver, parsed, pkg, split, dists, listing, cur, pos, index, files, stdout, pc>>

(***************************************************************************)
(* Strings                                                                 *)
(***************************************************************************)
Digits == <<"0", "1", "2", "3", "4", "5", "6", "7", "8", "9">>

DigitChars == {Digits[i] : i \in 1..Len(Digits)}

LowerChars == {"a", "b", "c", "d", "e", "f", "g", "h", "i", "j", "k", "l", "m",
               "n", "o", "p", "q", "r", "s", "t", "u", "v", "w", "x", "y", "z"}

UpperChars == {"A", "B", "C", "D", "E", "F", "G", "H", "I", "J", "K", "L", "M",
               "N", "O", "P", "Q", "R", "S", "T", "U", "V", "W", "X", "Y", "Z"}

\* [a-zA-Z]
AlphaChars == LowerChars \cup UpperChars

\* \w under re.A
WordChars == AlphaChars \cup DigitChars \cup {"_"}

\* [a-z0-9]
LocalChars == LowerChars \cup DigitChars

RECURSIVE Flatten(_)
Flatten(ss) == IF ss = <<>> THEN <<>> ELSE Head(ss) \o Flatten(Tail(ss))

\* the concatenation of F(xs[1]), F(xs[2]), ... in that order
FlatMap(xs, F(_)) == Flatten([i \in 1..Len(xs) |-> F(xs[i])])

\* s[p+1 .. q]: the text between two match positions (count of characters consumed)
Text(s, p, q) == SubSeq(s, p + 1, q)

\* whether the literal lit occurs in s right after position p
Lit(s, p, lit) == p + Len(lit) <= Len(s) /\ Text(s, p, p + Len(lit)) = lit

\* the end of the longest run of characters of class cls after position p
RECURSIVE RunEnd(_, _, _)
RunEnd(s, p, cls) ==
    IF p < Len(s) /\ s[p + 1] \in cls THEN RunEnd(s, p + 1, cls) ELSE p

\* cls+ (greedy): the ends it can stop at, longest first
PlusEnds(s, p, cls) ==
    LET m == RunEnd(s, p, cls) IN [k \in 1..(m - p) |-> m - k + 1]

\* lit? (greedy): with the literal first, then without
OptEnds(s, p, lit) == IF Lit(s, p, lit) THEN <<p + Len(lit), p>> ELSE <<p>>

\* $ without re.M: at the end, or just before a final newline
AtEnd(s, p) == p = Len(s) \/ (p = Len(s) - 1 /\ s[Len(s)] = "\n")

\* a group of a match object: its text, or not matched (group() gives None)
Group(t) == [matched |-> TRUE, text |-> t]

NoGroup == [matched |-> FALSE, text |-> <<>>]

\* truth value of v.group(g): None and '' are false
Truthy(g) == g.matched /\ g.text # <<>>

\* str.split(sep) for a one-character separator
RECURSIVE StrSplit(_, _)
StrSplit(s, sep) ==
    IF \E i \in 1..Len(s) : s[i] = sep
    THEN LET i == CHOOSE i \in 1..Len(s) : s[i] = sep /\ \A j \in 1..(i - 1) : s[j] # sep
         IN <<SubSeq(s, 1, i - 1)>> \o StrSplit(SubSeq(s, i + 1, Len(s)), sep)
    ELSE <<s>>

\* str.rpartition(sep) for a one-character separator: (head, sep, tail)
StrRPartition(s, sep) ==
    IF \E i \in 1..Len(s) : s[i] = sep
    THEN LET i == CHOOSE i \in 1..Len(s) :
                      s[i] = sep /\ \A j \in (i + 1)..Len(s) : s[j] # sep
         IN <<SubSeq(s, 1, i - 1), <<sep>>, SubSeq(s, i + 1, Len(s))>>
    ELSE <<<<>>, <<>>, s>>

DigitValue(c) == CHOOSE n \in 0..9 : Digits[n + 1] = c

\* int(s) for a non-empty string of ASCII digits
RECURSIVE int(_)
int(s) ==
    IF s = <<>> THEN 0
    ELSE 10 * int(SubSeq(s, 1, Len(s) - 1)) + DigitValue(s[Len(s)])

\* str(x) of an optional group inside an f-string: its text, or 'None'
FormatGroup(g) == IF g.matched THEN g.text ELSE <<"N", "o", "n", "e">>

(***************************************************************************)
(* version_regexp                                                          *)
(***************************************************************************)
\* (?:\.cls+)* (greedy): the ends, in the order the matcher tries them
RECURSIVE DottedStarEnds(_, _, _)
DottedStarEnds(s, p, cls) ==
    (IF Lit(s, p, <<".">>)
     THEN FlatMap(PlusEnds(s, p + 1, cls), LAMBDA q : DottedStarEnds(s, q, cls))
     ELSE <<>>) \o <<p>>

\* cls+(?:\.cls+)* : [0-9]+(?:\.[0-9]+)* of release, [a-z0-9]+(?:[\.][a-z0-9]+)* of local
DottedEnds(s, p, cls) ==
    FlatMap(PlusEnds(s, p, cls), LAMBDA q : DottedStarEnds(s, q, cls))

\* ([0-9]+)? (greedy): the ends; the group took part iff the end moved
OptDigitsEnds(s, p) == PlusEnds(s, p, DigitChars) \o <<p>>

\* (a|b|c|rc|alpha|beta|pre|preview), in the order of the alternation
PreTags == << <<"a">>, <<"b">>, <<"c">>, <<"r", "c">>,
              <<"a", "l", "p", "h", "a">>, <<"b", "e", "t", "a">>,
              <<"p", "r", "e">>, <<"p", "r", "e", "v", "i", "e", "w">> >>

DevTag == <<"d", "e", "v">>

\* (?P<pre>[-]?(?P<pre_l>...)[\.]?(?P<pre_n>[0-9]+)?)? from position p
PreCands(s, p) ==
    FlatMap(OptEnds(s, p, <<"-">>), LAMBDA h :
      FlatMap(PreTags, LAMBDA tag :
        IF Lit(s, h, tag)
        THEN FlatMap(OptEnds(s, h + Len(tag), <<".">>), LAMBDA d :
               FlatMap(OptDigitsEnds(s, d), LAMBDA n :
                 << [end |-> n,
                     pre |-> Group(Text(s, p, n)),
                     pre_l |-> Group(tag),
                     pre_n |-> IF n > d THEN Group(Text(s, d, n)) ELSE NoGroup] >>))
        ELSE <<>>))
    \o << [end |-> p, pre |-> NoGroup, pre_l |-> NoGroup, pre_n |-> NoGroup] >>

\* (?P<dev>[\.]?(?P<dev_l>dev)[\.]?(?P<dev_n>[0-9]+)?)? from position p
DevCands(s, p) ==
    FlatMap(OptEnds(s, p, <<".">>), LAMBDA h :
      IF Lit(s, h, DevTag)
      THEN FlatMap(OptEnds(s, h + Len(DevTag), <<".">>), LAMBDA d :
             FlatMap(OptDigitsEnds(s, d), LAMBDA n :
               << [end |-> n,
                   dev |-> Group(Text(s, p, n)),
                   dev_l |-> Group(DevTag),
                   dev_n |-> IF n > d THEN Group(Text(s, d, n)) ELSE NoGroup] >>))
      ELSE <<>>)
    \o << [end |-> p, dev |-> NoGroup, dev_l |-> NoGroup, dev_n |-> NoGroup] >>

\* (?:\+(?P<local>[a-z0-9]+(?:[\.][a-z0-9]+)*))? from position p
LocalCands(s, p) ==
    (IF Lit(s, p, <<"+">>)
     THEN FlatMap(DottedEnds(s, p + 1, LocalChars), LAMBDA q :
            << [end |-> q, local |-> Group(Text(s, p + 1, q))] >>)
     ELSE <<>>)
    \o << [end |-> p, local |-> NoGroup] >>

\* every way version_regexp matches the whole of s, in the matcher's order
VersionMatches(s) ==
    FlatMap(DottedEnds(s, 0, DigitChars), LAMBDA r :
      FlatMap(PreCands(s, r), LAMBDA pr :
        FlatMap(DevCands(s, pr.end), LAMBDA dv :
          FlatMap(LocalCands(s, dv.end), LAMBDA lc :
            IF AtEnd(s, lc.end)
            THEN << [found |-> TRUE,
                     release |-> Group(Text(s, 0, r)),
                     pre |-> pr.pre, pre_l |-> pr.pre_l, pre_n |-> pr.pre_n,
                     dev |-> dv.dev, dev_l |-> dv.dev_l, dev_n |-> dv.dev_n,
                     local |-> lc.local] >>
            ELSE <<>>))))

NoMatch == [found |-> FALSE]

\* version_regexp.match(s): the first complete parse, or None
version_regexp(s) ==
    LET ms == VersionMatches(s) IN IF ms = <<>> THEN NoMatch ELSE Head(ms)

(***************************************************************************)
(* parse_version                                                           *)
(***************************************************************************)
\* an exception leaving parse_version
Raise(kind, msg) == [ok |-> FALSE, error |-> kind, message |-> msg]

CannotParse == Raise("ValueError", "cannot parse version")

CannotDetermineStage == Raise("ValueError", "cannot determine release stage")

\* int(None)
IntOfNone == Raise("TypeError", "int() argument")

\* release[1] of a one-element list
IndexOutOfRange == Raise("IndexError", "list index out of range")

\* Stage with the elif branch of b/beta assigning the stage of the branch above it
StageBetaAsAlpha(pre_l) ==
    IF pre_l \in {<<"a">>, <<"a", "l", "p", "h", "a">>} THEN "alpha"
    ELSE IF pre_l \in {<<"b">>, <<"b", "e", "t", "a">>} THEN "alpha"
    ELSE IF pre_l \in {<<"c">>, <<"r", "c">>} THEN "rc"
    ELSE "unrecognized"

\* Stage with pre and preview taken as spellings of rc
StagePreviewAsRc(pre_l) ==
    IF pre_l \in {<<"a">>, <<"a", "l", "p", "h", "a">>} THEN "alpha"
    ELSE IF pre_l \in {<<"b">>, <<"b", "e", "t", "a">>} THEN "beta"
    ELSE IF pre_l \in {<<"c">>, <<"r", "c">>, <<"p", "r", "e">>,
                       <<"p", "r", "e", "v", "i", "e", "w">>} THEN "rc"
    ELSE "unrecognized"

\* the if/elif chain over pre_l; "unrecognized" stands for its else branch
Stage(pre_l) ==
    IF pre_l \in {<<"a">>, <<"a", "l", "p", "h", "a">>} THEN "alpha"
    ELSE IF pre_l \in {<<"b">>, <<"b", "e", "t", "a">>} THEN "beta"
    ELSE IF pre_l \in {<<"c">>, <<"r", "c">>} THEN "rc"
    ELSE "unrecognized"

\* metadata.extend([f'dev{v.group("dev_n")}']) under if v.group('dev')
DevToken(v) ==
    IF Truthy(v.dev) THEN << DevTag \o FormatGroup(v.dev_n) >> ELSE <<>>

\* metadata.extend(v.group('local').split('.')) under if v.group('local')
LocalTokens(v) ==
    IF Truthy(v.local) THEN StrSplit(v.local.text, ".") ELSE <<>>

\* Patch with len(release) >= 3 for len(release) == 3
PatchOfThreeOrMore(release) == IF Len(release) >= 3 THEN release[3] ELSE 0

\* release[2] if len(release) == 3 else 0
Patch(release) == IF Len(release) = 3 THEN release[3] ELSE 0

\* release = [int(r) for r in ...split('.')] and the Version(...) that is returned
MakeVersion(v, prerelease, prerelease_no, metadata) ==
    LET segs == StrSplit(v.release.text, ".")
        release == [i \in 1..Len(segs) |-> int(segs[i])]
    IN IF Len(release) < 2 THEN IndexOutOfRange
       ELSE [ok |-> TRUE,
             major |-> release[1],
             minor |-> release[2],
             patch |-> Patch(release),
             prerelease |-> prerelease,
             prerelease_no |-> prerelease_no,
             metadata |-> metadata]

\* Ordinal with a missing ordinal defaulted to 0: int(v.group(g) or 0)
OrdinalDefaultZero(g) ==
    IF ~g.matched THEN [ok |-> TRUE, value |-> 0]
    ELSE [ok |-> TRUE, value |-> int(g.text)]

\* int(v.group(g)): the number, or the TypeError of int(None)
Ordinal(g) ==
    IF ~g.matched THEN IntOfNone ELSE [ok |-> TRUE, value |-> int(g.text)]

parse_version(s) ==
    LET v == version_regexp(s) IN
    IF ~v.found THEN CannotParse
    ELSE IF Truthy(v.pre)
    THEN IF Stage(v.pre_l.text) = "unrecognized" THEN CannotDetermineStage
         ELSE IF ~Ordinal(v.pre_n).ok THEN Ordinal(v.pre_n)
         ELSE MakeVersion(v, Stage(v.pre_l.text), Ordinal(v.pre_n).value,
                          DevToken(v) \o LocalTokens(v))
    ELSE IF Truthy(v.dev)
    THEN IF ~Ordinal(v.dev_n).ok THEN Ordinal(v.dev_n)
         ELSE MakeVersion(v, "dev", Ordinal(v.dev_n).value, LocalTokens(v))
    ELSE MakeVersion(v, "None", 0, LocalTokens(v))

(***************************************************************************)
(* slot_regexp                                                             *)
(***************************************************************************)
\* cls* (greedy): the ends, longest first, the empty run last
StarEnds(s, p, cls) == PlusEnds(s, p, cls) \o <<p>>

\* LazyGroupsEnds as (?:-\w*)* (greedy, digits allowed): groups that can
\* swallow a slot
RECURSIVE GreedyWordGroupsEnds(_, _)
GreedyWordGroupsEnds(s, p) ==
    (IF Lit(s, p, <<"-">>)
     THEN FlatMap(StarEnds(s, p + 1, WordChars), LAMBDA q : GreedyWordGroupsEnds(s, q))
     ELSE <<>>) \o <<p>>

\* (?:-[a-zA-Z]*)*? (lazy): stop first, then one more group
RECURSIVE LazyGroupsEnds(_, _)
LazyGroupsEnds(s, p) ==
    <<p>> \o
    (IF Lit(s, p, <<"-">>)
     THEN FlatMap(StarEnds(s, p + 1, AlphaChars), LAMBDA q : LazyGroupsEnds(s, q))
     ELSE <<>>)

\* group 1, \w+(?:-[a-zA-Z]*)*? from the start of s
BaseEnds(s) ==
    FlatMap(PlusEnds(s, 0, WordChars), LAMBDA q : LazyGroupsEnds(s, q))

\* (?:alpha|beta|rc), in the order of the alternation
SlotStages == << <<"a", "l", "p", "h", "a">>, <<"b", "e", "t", "a">>, <<"r", "c">> >>

\* (?:-(?:alpha|beta|rc)\d+)? (greedy) from position p
SlotStageEnds(s, p) ==
    (IF Lit(s, p, <<"-">>)
     THEN FlatMap(SlotStages, LAMBDA tag :
            IF Lit(s, p + 1, tag)
            THEN PlusEnds(s, p + 1 + Len(tag), DigitChars)
            ELSE <<>>)
     ELSE <<>>) \o <<p>>

\* (?:-dev\d+)? (greedy) from position p
SlotDevEnds(s, p) ==
    (IF Lit(s, p, <<"-">> \o DevTag)
     THEN PlusEnds(s, p + 1 + Len(DevTag), DigitChars)
     ELSE <<>>) \o <<p>>

\* group 2, \d+(?:-(?:alpha|beta|rc)\d+)?(?:-dev\d+)? from position p
SlotEnds(s, p) ==
    FlatMap(PlusEnds(s, p, DigitChars), LAMBDA n :
      FlatMap(SlotStageEnds(s, n), LAMBDA t : SlotDevEnds(s, t)))

\* (?:-(group 2))? (greedy) from position p
SlotCands(s, p) ==
    (IF Lit(s, p, <<"-">>)
     THEN FlatMap(SlotEnds(s, p + 1), LAMBDA q :
            << [end |-> q, g2 |-> Group(Text(s, p + 1, q))] >>)
     ELSE <<>>)
    \o << [end |-> p, g2 |-> NoGroup] >>

\* every way slot_regexp matches the whole of s, in the matcher's order
SlotMatches(s) ==
    FlatMap(BaseEnds(s), LAMBDA b :
      FlatMap(SlotCands(s, b), LAMBDA sl :
        IF AtEnd(s, sl.end)
        THEN << [found |-> TRUE, g1 |-> Group(Text(s, 0, b)), g2 |-> sl.g2] >>
        ELSE <<>>))

\* slot_regexp.match(s): the first complete parse, or None
slot_regexp(s) ==
    LET ms == SlotMatches(s) IN IF ms = <<>> THEN NoMatch ELSE Head(ms)

(***************************************************************************)
(* main: one line of reprepro list                                         *)
(***************************************************************************)
\* the NUL byte between the fields of a line, as one character
NUL == "NUL"

\* the characters str.strip() removes
Whitespace == {" ", "\t", "\n", "\r", "\f"}

\* not line.strip()
IsBlank(line) == \A i \in 1..Len(line) : line[i] \in Whitespace

\* line.split('\0')
Fields(line) == StrSplit(line, NUL)

\* SplitRevision with partition for rpartition: the split at the first '-'
SplitAtFirstHyphen(pkgver) ==
    IF \E i \in 1..Len(pkgver) : pkgver[i] = "-"
    THEN LET i == CHOOSE i \in 1..Len(pkgver) :
                      pkgver[i] = "-" /\ \A j \in 1..(i - 1) : pkgver[j] # "-"
         IN <<SubSeq(pkgver, 1, i - 1), <<"-">>, SubSeq(pkgver, i + 1, Len(pkgver))>>
    ELSE <<pkgver, <<>>, <<>>>>

\* relver, _, revver = pkgver.rpartition('-')
SplitRevision(pkgver) == StrRPartition(pkgver, "-")

\* NameParts with the fallback branch leaving basename empty
NamePartsEmptyFallback(pkgname) ==
    LET m == slot_regexp(pkgname)
    IN IF ~m.found
       THEN [m |-> FALSE, basename |-> <<>>, slot |-> NoGroup]
       ELSE [m |-> TRUE, basename |-> m.g1.text, slot |-> m.g2]

\* m = slot_regexp.match(pkgname) and the basename, slot of either branch;
\* slot None is NoGroup
NameParts(pkgname) ==
    LET m == slot_regexp(pkgname)
    IN IF ~m.found
       THEN [m |-> FALSE, basename |-> pkgname, slot |-> NoGroup]
       ELSE [m |-> TRUE, basename |-> m.g1.text, slot |-> m.g2]

\* what the iteration prints: one line when the name does not match
Diagnostics(pkgname) ==
    IF ~slot_regexp(pkgname).found
    THEN << <<"cannot parse package name: ">> \o pkgname >>
    ELSE <<>>

Amd64 == <<"a", "m", "d", "6", "4">>

X86_64 == <<"x", "8", "6", "_", "6", "4">>

\* if arch == 'amd64': arch = 'x86_64'
Architecture(arch) == IF arch = Amd64 THEN X86_64 ELSE arch

\* '{}={}-{}'.format(pkgname, relver, revver)
InstallRef(pkgname, relver, revver) ==
    pkgname \o <<"=">> \o relver \o <<"-">> \o revver

\* the dict appended for a line of three fields
Entry(line) ==
    LET fields == Fields(line)
        arch == fields[1]
        pkgname == fields[2]
        pkgver == fields[3]
        relver == SplitRevision(pkgver)[1]
        revver == SplitRevision(pkgver)[3]
        parts == NameParts(pkgname)
    IN [basename |-> parts.basename,
        slot |-> parts.slot,
        name |-> pkgname,
        version |-> relver,
        parsed_version |-> parse_version(relver),
        revision |-> revver,
        architecture |-> Architecture(arch),
        installref |-> InstallRef(pkgname, relver, revver)]

\* RowRaises with the exception of parse_version caught and the row kept
RowNeverRaises(line) == Len(Fields(line)) # 3

\* whether the iteration over a non-blank line ends in an exception: the
\* unpacking of other than three fields, or parse_version(relver)
RowRaises(line) ==
    \/ Len(Fields(line)) # 3
    \/ ~parse_version(SplitRevision(Fields(line)[3])[1]).ok

\* Appended with an entry already in the index left out
AppendedIfNew(idx, entry) ==
    IF \E k \in 1..Len(idx) : idx[k] = entry THEN idx ELSE Append(idx, entry)

\* index.append(entry)
Appended(idx, entry) == Append(idx, entry)

(***************************************************************************)
(* Inputs                                                                  *)
(***************************************************************************)
\* most dot-separated segments of a release
MaxRelease == 4

\* most dot-separated segments of a local part
MaxLocal == 2

\* most hyphen-separated segments of a package name
MaxNameSegs == 4

\* most lines reprepro list gives in one run, over all distributions
MaxLines == 3

RECURSIVE Join(_, _)
Join(parts, sep) ==
    IF parts = <<>> THEN <<>>
    ELSE IF Len(parts) = 1 THEN parts[1]
    ELSE parts[1] \o sep \o Join(Tail(parts), sep)

\* the i-th release segment: "i", or "0i5" (a leading zero, several digits)
ReleaseSegment(style, i) ==
    IF style = 1 THEN <<Digits[(i % 10) + 1]>>
    ELSE <<"0", Digits[(i % 10) + 1], "5">>

ReleaseTexts ==
    {Join([i \in 1..k |-> ReleaseSegment(st, i)], <<".">>) :
        k \in 0..MaxRelease, st \in {1, 2}}

PreTexts ==
    {<<>>} \cup
    {h \o t \o d \o n :
        h \in {<<>>, <<"-">>},
        t \in {PreTags[i] : i \in 1..Len(PreTags)} \cup {<<"x">>},
        d \in {<<>>, <<".">>},
        n \in {<<>>, <<"0", "4">>}}

DevTexts ==
    {<<>>} \cup
    {d1 \o DevTag \o d2 \o n :
        d1 \in {<<>>, <<".">>}, d2 \in {<<>>, <<".">>}, n \in {<<>>, <<"5">>}}

LocalSegments == << <<"a", "b">>, <<"0", "7">>, <<"c", "3">>, <<"z">> >>

LocalTexts ==
    {<<>>, <<"+">>, <<"+", "X">>} \cup
    {<<"+">> \o Join([i \in 1..k |-> LocalSegments[((i - 1) % 4) + 1]], <<".">>) :
        k \in 1..MaxLocal}

NameSegments ==
    {<<>>, <<"f", "o">>, <<"B">>, <<"7">>, <<"x", "_", "9">>, <<"f", "!">>,
     <<"a", "l", "p", "h", "a", "2">>, <<"r", "c", "1">>,
     <<"d", "e", "v", "3">>, <<"d", "e", "v">>}

Arm64 == <<"a", "r", "m", "6", "4">>

Line(arch, pkgname, pkgver) == arch \o <<NUL>> \o pkgname \o <<NUL>> \o pkgver

\* the lines reprepro list can give: a blank one, two whose version parses
\* (foo-1 2.0.0-1; a name outside the grammar with a hyphen in the release
\* version) and two whose version does not (no '-'; one release segment)
Lines ==
    { <<" ">>,
      Line(Amd64, <<"f", "o", "-", "1">>, <<"2", ".", "0", ".", "0", "-", "1">>),
      Line(Arm64, <<"f", "!">>, <<"1", ".", "2", "-", "a", "1", "-", "3">>),
      Line(Arm64, <<"f", "!">>, <<"7">>),
      Line(Amd64, <<"f", "o", "-", "B">>, <<"1", "-", "1">>) }

\* the outputs of reprepro list of at most n lines
Listings(n) == UNION {[1..k -> Lines] : k \in 0..n}

\* the number of lines the listings of the distributions of S hold
RECURSIVE LineCount(_, _)
LineCount(ls, S) ==
    IF S = {} THEN 0
    ELSE LET d == CHOOSE d \in S : TRUE
         IN Len(ls[d]) + LineCount(ls, S \ {d})

\* the distributions dumpreferences can name
AllDists == {"buster", "focal", "jammy"}

(***************************************************************************)
(* State machines                                                          *)
(***************************************************************************)
NotCalled == [ok |-> FALSE, error |-> "NotCalled", message |-> ""]

NoSplit == [called |-> FALSE]

mainVars == <<dists, listing, cur, pos, index, files, stdout, pc>>

MainIdle ==
    /\ dists = {} /\ listing = <<>> /\ cur = "" /\ pos = 0
    /\ index = <<>> /\ files = <<>> /\ stdout = <<>> /\ pc = "idle"

\* parse_version applied to one version string
InitVersion ==
    /\ \E r \in ReleaseTexts, p \in PreTexts, d \in DevTexts, l \in LocalTexts :
        ver = r \o p \o d \o l
    /\ parsed = NotCalled
    /\ pkg = <<>> /\ split = NoSplit
    /\ MainIdle

CallParseVersion ==
    /\ pc = "idle" /\ parsed = NotCalled
    /\ parsed' = parse_version(ver)
    /\ UNCHANGED <<ver, pkg, split, mainVars>>

SpecVersion == InitVersion /\ [][CallParseVersion]_vars

\* slot_regexp and the branches after it applied to one package name
InitName ==
    /\ \E k \in 1..MaxNameSegs :
        \E segs \in [1..k -> NameSegments] : pkg = Join(segs, <<"-">>)
    /\ split = NoSplit
    /\ ver = <<>> /\ parsed = NotCalled
    /\ MainIdle

CallSlotRegexp ==
    /\ pc = "idle" /\ split = NoSplit
    /\ split' = [called |-> TRUE, parts |-> NameParts(pkg)]
    /\ UNCHANGED <<ver, parsed, pkg, mainVars>>

SpecName == InitName /\ [][CallSlotRegexp]_vars

\* main, after dumpreferences has given the set of distributions
Init ==
    /\ dists \in SUBSET AllDists
    /\ listing = <<>> /\ cur = "" /\ pos = 0
    /\ index = <<>> /\ files = <<>> /\ stdout = <<>>
    /\ pc = "loop"
    /\ ver = <<>> /\ parsed = NotCalled /\ pkg = <<>> /\ split = NoSplit

\* for dist in dists: reprepro list dist; index = []
ListDist ==
    /\ pc = "loop"
    /\ \E d \in dists, lines \in Listings(MaxLines - LineCount(listing, DOMAIN listing)) :
        /\ cur' = d
        /\ dists' = dists \ {d}
        /\ listing' = (d :> lines) @@ listing
    /\ index' = <<>>
    /\ pos' = 0
    /\ pc' = "rows"
    /\ UNCHANGED <<files, stdout, ver, parsed, pkg, split>>

\* an iteration of the inner loop over a blank line: continue
SkipBlankLine ==
    /\ pc = "rows" /\ pos < Len(listing[cur])
    /\ IsBlank(listing[cur][pos + 1])
    /\ pos' = pos + 1
    /\ UNCHANGED <<dists, listing, cur, index, files, stdout, pc, ver, parsed, pkg, split>>

\* an iteration of the inner loop that appends the line's entry
AppendEntry ==
    /\ pc = "rows" /\ pos < Len(listing[cur])
    /\ LET line == listing[cur][pos + 1] IN
        /\ ~IsBlank(line)
        /\ ~RowRaises(line)
        /\ stdout' = stdout \o Diagnostics(Fields(line)[2])
        /\ index' = Appended(index, Entry(line))
    /\ pos' = pos + 1
    /\ UNCHANGED <<dists, listing, cur, files, pc, ver, parsed, pkg, split>>

\* an iteration of the inner loop that raises: the exception leaves main
\* (the diagnostic of the line's name is printed before parse_version is called)
RaiseFromRow ==
    /\ pc = "rows" /\ pos < Len(listing[cur])
    /\ LET line == listing[cur][pos + 1] IN
        /\ ~IsBlank(line)
        /\ RowRaises(line)
        /\ stdout' = IF Len(Fields(line)) = 3
                     THEN stdout \o Diagnostics(Fields(line)[2])
                     ELSE stdout
    /\ pc' = "failed"
    /\ UNCHANGED <<dists, listing, cur, pos, index, files, ver, parsed, pkg, split>>

\* after the inner loop: json.dump({'packages': index}) to <dist>.json
WriteIndex ==
    /\ pc = "rows" /\ pos = Len(listing[cur])
    /\ files' = (cur :> index) @@ files
    /\ pc' = "loop"
    /\ UNCHANGED <<dists, listing, cur, pos, index, stdout, ver, parsed, pkg, split>>

\* the outer loop has no distribution left: main returns
Return ==
    /\ pc = "loop" /\ dists = {}
    /\ pc' = "done"
    /\ UNCHANGED <<dists, listing, cur, pos, index, files, stdout, ver, parsed, pkg, split>>

Next ==
    \/ ListDist
    \/ SkipBlankLine
    \/ AppendEntry
    \/ RaiseFromRow
    \/ WriteIndex
    \/ Return

Spec == Init /\ [][Next]_vars

(***************************************************************************)
(* Claims about parse_version, checked under SpecVersion                   *)
(***************************************************************************)
TagAlpha == <<"a", "l", "p", "h", "a">>

TagBeta == <<"b", "e", "t", "a">>

TagRc == <<"r", "c">>

TagPre == <<"p", "r", "e">>

TagPreview == <<"p", "r", "e", "v", "i", "e", "w">>

\* parse_version was called and returned a record
Returned == parsed.ok

\* parse_version was called and raised
Raised == ~parsed.ok /\ parsed # NotCalled

AllIn(s, cls) == \A i \in 1..Len(s) : s[i] \in cls

IsNumber(s) == s # <<>> /\ AllIn(s, DigitChars)

\* C1: on every returned record the stage is decided by exactly one of three
\* cases: a pre-release segment matched (alpha for a/alpha, beta for b/beta,
\* rc for c/rc, prerelease_no the pre-release ordinal, also when a dev segment
\* is present); else a dev segment matched (dev, the dev ordinal); else none, 0.
C1_StageCases ==
    Returned =>
        LET v == version_regexp(ver) IN
        /\ v.pre.matched =>
            /\ v.pre_l.text \in {<<"a">>, TagAlpha} => parsed.prerelease = "alpha"
            /\ v.pre_l.text \in {<<"b">>, TagBeta} => parsed.prerelease = "beta"
            /\ v.pre_l.text \in {<<"c">>, TagRc} => parsed.prerelease = "rc"
            /\ parsed.prerelease \in {"alpha", "beta", "rc"}
            /\ parsed.prerelease_no = int(v.pre_n.text)
        /\ (~v.pre.matched /\ v.dev.matched) =>
            /\ parsed.prerelease = "dev"
            /\ parsed.prerelease_no = int(v.dev_n.text)
        /\ (~v.pre.matched /\ ~v.dev.matched) =>
            /\ parsed.prerelease = "None"
            /\ parsed.prerelease_no = 0

\* a returned record of a string with the tag beta, the pre-release ordinal 04
\* and the dev ordinal 5
C1_Witness ==
    /\ Returned
    /\ version_regexp(ver).pre_l.text = TagBeta
    /\ version_regexp(ver).dev_n.text = <<"5">>
    /\ parsed.prerelease = "beta"
    /\ parsed.prerelease_no = 4

\* C2: release segments map by position: with two or more, major and minor
\* are segments 0 and 1, patch is segment 2 when there are exactly three and
\* 0 otherwise; with exactly one segment parse_version returns no record.
C2_ReleaseSegments ==
    (parsed # NotCalled /\ version_regexp(ver).found) =>
        LET segs == StrSplit(version_regexp(ver).release.text, ".") IN
        /\ Len(segs) = 1 => ~parsed.ok
        /\ (Len(segs) >= 2 /\ parsed.ok) =>
            /\ parsed.major = int(segs[1])
            /\ parsed.minor = int(segs[2])
            /\ parsed.patch = IF Len(segs) = 3 THEN int(segs[3]) ELSE 0

\* a returned record of a release of four segments, the third not 0
C2_Witness ==
    /\ Returned
    /\ LET segs == StrSplit(version_regexp(ver).release.text, ".") IN
        /\ Len(segs) = 4
        /\ int(segs[3]) = 35
    /\ parsed.major = 15 /\ parsed.minor = 25 /\ parsed.patch = 0

\* C3: on every returned record metadata is: one token dev<N>, N the numeric
\* development ordinal, iff both a pre-release and a dev segment matched,
\* then the local segments in their order, and nothing else.
C3_Metadata ==
    Returned =>
        LET v == version_regexp(ver)
            both == v.pre.matched /\ v.dev.matched
            locals == IF v.local.matched THEN StrSplit(v.local.text, ".") ELSE <<>>
            md == parsed.metadata
        IN /\ both =>
               /\ Len(md) >= 1
               /\ Lit(md[1], 0, DevTag)
               /\ IsNumber(SubSeq(md[1], Len(DevTag) + 1, Len(md[1])))
               /\ v.dev_n.matched
               /\ md[1] = DevTag \o v.dev_n.text
               /\ Tail(md) = locals
           /\ ~both => md = locals

\* C4 as amended: a matched stage tag is one of a, alpha, b, beta, c, rc, pre,
\* preview, and the failure 'cannot determine release stage' is raised exactly
\* for the strings that match with the tag pre or preview.
C4_StageFailureIffPreview ==
    parsed # NotCalled =>
        LET v == version_regexp(ver) IN
        /\ (v.found /\ v.pre.matched) =>
            /\ v.pre_l.text \in {PreTags[i] : i \in 1..Len(PreTags)}
            /\ parsed = CannotDetermineStage <=> v.pre_l.text \in {TagPre, TagPreview}
        /\ ~(v.found /\ v.pre.matched) => parsed # CannotDetermineStage

\* the call raised 'cannot determine release stage' on a string that matches
\* with the tag preview and an ordinal
C4_Witness ==
    /\ parsed = CannotDetermineStage
    /\ version_regexp(ver).pre_l.text = TagPreview
    /\ version_regexp(ver).pre_n.matched

\* C4 as stated: after a successful match the failure 'cannot determine
\* release stage' is never raised: a matched stage tag is one of a, alpha, b,
\* beta, c, rc.
C4_StageFailureUnreachable ==
    (parsed # NotCalled /\ version_regexp(ver).found /\ version_regexp(ver).pre.matched) =>
        /\ version_regexp(ver).pre_l.text \in
               {<<"a">>, TagAlpha, <<"b">>, TagBeta, <<"c">>, TagRc}
        /\ parsed # CannotDetermineStage

\* C5: prerelease_no of a returned record is a natural number; when the
\* ordinal that would become prerelease_no is absent (a recognized tag without
\* ordinal; dev alone without ordinal) parse_version raises instead of
\* defaulting; a returned record without stage has prerelease_no 0.
C5_OrdinalRequired ==
    parsed # NotCalled =>
        LET v == version_regexp(ver) IN
        /\ parsed.ok => parsed.prerelease_no \in Nat
        /\ (parsed.ok /\ parsed.prerelease = "None") => parsed.prerelease_no = 0
        /\ (v.found /\ v.pre.matched /\ ~v.pre_n.matched) => ~parsed.ok
        /\ (v.found /\ ~v.pre.matched /\ v.dev.matched /\ ~v.dev_n.matched) => ~parsed.ok

\* the call raised on two release segments, a recognized tag and no ordinal
C5_Witness ==
    /\ Raised
    /\ parsed.error = "TypeError"
    /\ LET v == version_regexp(ver) IN
        /\ v.found
        /\ Len(StrSplit(v.release.text, ".")) = 2
        /\ v.pre_l.text = TagRc
        /\ ~v.pre_n.matched
        /\ ~v.dev.matched

(***************************************************************************)
(* Claim about slot_regexp, checked under SpecName                         *)
(***************************************************************************)
\* -(alpha|beta|rc)<int> without its hyphen
IsStagePart(x) ==
    \E tag \in {TagAlpha, TagBeta, TagRc} :
        Lit(x, 0, tag) /\ IsNumber(SubSeq(x, Len(tag) + 1, Len(x)))

\* -dev<int> without its hyphen
IsDevPart(x) == Lit(x, 0, DevTag) /\ IsNumber(SubSeq(x, Len(DevTag) + 1, Len(x)))

\* <int>, then optionally -(alpha|beta|rc)<int>, then optionally -dev<int>
SlotShaped(x) ==
    LET ps == StrSplit(x, "-") IN
    /\ IsNumber(ps[1])
    /\ \/ Len(ps) = 1
       \/ Len(ps) = 2 /\ (IsStagePart(ps[2]) \/ IsDevPart(ps[2]))
       \/ Len(ps) = 3 /\ IsStagePart(ps[2]) /\ IsDevPart(ps[3])

\* word characters, then hyphen-introduced alphabetic segments
BasenameShaped(b) ==
    LET ps == StrSplit(b, "-") IN
    /\ ps[1] # <<>> /\ AllIn(ps[1], WordChars)
    /\ \A i \in 2..Len(ps) : AllIn(ps[i], AlphaChars)

\* C6: on a name that matches, basename followed by '-' and slot (when there
\* is one) is the name and slot is slot-shaped; a name that is a basename
\* followed by '-' and a slot-shaped suffix matches with a slot, the longest
\* such suffix.
C6_NameSplit ==
    split.called =>
        LET parts == split.parts IN
        /\ parts.m =>
            /\ parts.basename \o
                 (IF parts.slot.matched THEN <<"-">> \o parts.slot.text ELSE <<>>) = pkg
            /\ parts.slot.matched => SlotShaped(parts.slot.text)
        /\ \A i \in 1..Len(pkg) :
            (/\ pkg[i] = "-"
             /\ BasenameShaped(SubSeq(pkg, 1, i - 1))
             /\ SlotShaped(SubSeq(pkg, i + 1, Len(pkg)))) =>
                /\ parts.m
                /\ parts.slot.matched
                /\ Len(parts.slot.text) >= Len(pkg) - i

\* a name of a two-word basename and a slot with a -dev part was split
C6_Witness ==
    /\ split.called
    /\ split.parts.m
    /\ split.parts.basename = <<"f", "o", "-", "B">>
    /\ split.parts.slot.matched
    /\ split.parts.slot.text = <<"7", "-", "d", "e", "v", "3">>

(***************************************************************************)
(* Claims about main, checked under Spec                                   *)
(***************************************************************************)
NonBlank(lines) == SelectSeq(lines, LAMBDA l : ~IsBlank(l))

\* the lines of distribution d whose iteration has run (to its end or to an
\* exception)
Processed(d) ==
    IF d \in DOMAIN files THEN listing[d]
    ELSE SubSeq(listing[d], 1, IF pc = "failed" THEN pos + 1 ELSE pos)

\* the lines of distribution d whose iteration has run to its end
Completed(d) ==
    IF d \in DOMAIN files THEN listing[d] ELSE SubSeq(listing[d], 1, pos)

\* the entries made so far for distribution d
Entries(d) == IF d \in DOMAIN files THEN files[d] ELSE index

\* the lines whose package name is outside the name grammar
NameFailing ==
    {l \in Lines : ~IsBlank(l) /\ ~slot_regexp(Fields(l)[2]).found}

\* the lines on whose release version parse_version raises
VersionFailing ==
    {l \in Lines :
        ~IsBlank(l) /\ ~parse_version(StrRPartition(Fields(l)[3], "-")[1]).ok}

NameFails(line) == line \in NameFailing

VersionFails(line) == line \in VersionFailing

RECURSIVE NameFailures(_)
NameFailures(S) ==
    IF S = {} THEN 0
    ELSE LET d == CHOOSE d \in S : TRUE
         IN Len(SelectSeq(NonBlank(Processed(d)), NameFails)) + NameFailures(S \ {d})

\* C7: a name outside the name grammar is not fatal: its row prints one
\* diagnostic, gets an entry with basename the raw name and no slot when its
\* version parses, and the rows and distributions after it are processed as
\* after any other row.
C7_NameFallback ==
    /\ Len(stdout) = NameFailures(DOMAIN listing)
    /\ \A i \in 1..Len(stdout) :
        \E l \in NameFailing :
            stdout[i] = <<"cannot parse package name: ">> \o Fields(l)[2]
    /\ \A d \in DOMAIN listing :
        LET rows == NonBlank(Completed(d)) IN
        /\ Len(Entries(d)) = Len(rows)
        /\ \A k \in 1..Len(rows) :
            NameFails(rows[k]) =>
                /\ k <= Len(Entries(d))
                /\ Entries(d)[k].basename = Fields(rows[k])[2]
                /\ ~Entries(d)[k].slot.matched
    /\ pc = "failed" => VersionFails(listing[cur][pos + 1])
    /\ pc = "done" =>
        \A d \in DOMAIN listing :
            (\A k \in 1..Len(listing[d]) :
                IsBlank(listing[d][k]) \/ ~VersionFails(listing[d][k]))
            => d \in DOMAIN files

\* a run ended with a file whose first entry is of a name outside the grammar
\* and whose second is of a name with a slot, one diagnostic printed
C7_Witness ==
    /\ pc = "done"
    /\ Len(stdout) = 1
    /\ \E d \in DOMAIN files :
        /\ Len(files[d]) = 2
        /\ files[d][1].basename = <<"f", "!">>
        /\ ~files[d][1].slot.matched
        /\ files[d][2].slot.matched

\* C8: a failure of parse_version on a row ends the run: no step follows, the
\* distribution of the row has no file, no distribution still to be iterated
\* has one, and the files that exist are those of the distributions whose
\* rows all parsed before it.
C8_VersionFailureAborts ==
    /\ \A d \in DOMAIN files :
        \A k \in 1..Len(listing[d]) :
            IsBlank(listing[d][k]) \/ ~VersionFails(listing[d][k])
    /\ pc # "failed" =>
        \A d \in DOMAIN listing :
            \A k \in 1..Len(Processed(d)) :
                IsBlank(listing[d][k]) \/ ~VersionFails(listing[d][k])
    /\ DOMAIN files \cap dists = {}
    /\ pc = "failed" =>
        /\ VersionFails(listing[cur][pos + 1])
        /\ cur \notin DOMAIN files
        /\ DOMAIN files = DOMAIN listing \ {cur}
        /\ ~ENABLED Next

\* the run ended on a row whose version has no '-', after a row of the same
\* distribution was indexed, with one file written and one distribution left
C8_Witness ==
    /\ pc = "failed"
    /\ \A i \in 1..Len(Fields(listing[cur][pos + 1])[3]) :
        Fields(listing[cur][pos + 1])[3][i] # "-"
    /\ Len(index) = 1
    /\ DOMAIN files # {}
    /\ dists # {}

\* C9: every entry has version the part of the row's version-with-revision
\* before its last '-', revision the part after it (without '-'), and
\* installref = name=version-revision of its own fields = name=<the row's
\* version-with-revision>.
C9_InstallRef ==
    \A d \in DOMAIN listing :
        LET rows == NonBlank(Completed(d)) IN
        /\ Len(Entries(d)) = Len(rows)
        /\ \A k \in 1..Len(Entries(d)) :
            LET e == Entries(d)[k]
                pkgname == Fields(rows[k])[2]
                pkgver == Fields(rows[k])[3]
            IN /\ e.version \o <<"-">> \o e.revision = pkgver
               /\ \A i \in 1..Len(e.revision) : e.revision[i] # "-"
               /\ e.installref = e.name \o <<"=">> \o e.version \o <<"-">> \o e.revision
               /\ e.installref = pkgname \o <<"=">> \o pkgver

\* a file holds an entry whose version has a '-' in it
C9_Witness ==
    \E d \in DOMAIN files :
        \E k \in 1..Len(files[d]) :
            /\ files[d][k].version = <<"1", ".", "2", "-", "a", "1">>
            /\ files[d][k].revision = <<"3">>

\* C10: a written index holds one entry per non-blank line of its
\* distribution, in the order of the lines, with the line's name and its
\* architecture (amd64 as x86_64); equal lines give equal entries wherever
\* they stand, none is dropped; a run that ends normally wrote every file.
C10_OneEntryPerRow ==
    /\ \A d \in DOMAIN files :
        LET rows == NonBlank(listing[d]) IN
        /\ Len(files[d]) = Len(rows)
        /\ \A k \in 1..Len(files[d]) :
            /\ files[d][k].name = Fields(rows[k])[2]
            /\ files[d][k].architecture =
                 IF Fields(rows[k])[1] = Amd64 THEN X86_64 ELSE Fields(rows[k])[1]
    /\ \A d1 \in DOMAIN files, d2 \in DOMAIN files :
        \A k1 \in 1..Len(files[d1]), k2 \in 1..Len(files[d2]) :
            (/\ Len(files[d1]) = Len(NonBlank(listing[d1]))
             /\ Len(files[d2]) = Len(NonBlank(listing[d2]))
             /\ NonBlank(listing[d1])[k1] = NonBlank(listing[d2])[k2])
            => files[d1][k1] = files[d2][k2]
    /\ pc = "done" => DOMAIN files = DOMAIN listing

\* a run ended with a file of two equal amd64 entries made from three lines
C10_Witness ==
    /\ pc = "done"
    /\ \E d \in DOMAIN files :
        /\ Len(listing[d]) = 3
        /\ Len(files[d]) = 2
        /\ files[d][1] = files[d][2]
        /\ files[d][1].architecture = X86_64

====
